---- MODULE Spec2Model ----
(***************************************************************************)
(* A model of the C++ code generator of src/src/idl_gen_cpp.cpp.           *)
(*                                                                         *)
(* The generated text is modelled as a sequence of tokens, one token per   *)
(* emitted declaration (an enum constant, a name-table entry, an accessor, *)
(* an add_ method, an add_ call, a padding member, ...), in the order the  *)
(* code appends them to its output string.  A token carries the strings    *)
(* and numbers the code prints into that declaration.  Doc comments and    *)
(* the C++ spelling of field types are not part of the model.              *)
(***************************************************************************)
EXTENDS Integers, Sequences, FiniteSets, TLC

VARIABLES
  parser,             \* the resolved schema handed to GenerateCPP (const Parser &)
  pc,                 \* position inside GenerateCPP(parser, path, file_name)
  enum_code,          \* std::string enum_code
  forward_decl_code,  \* std::string forward_decl_code
  decl_code,          \* std::string decl_code
  code,               \* the value returned by GenerateCPP(parser)
  file,               \* the content handed to SaveFile by its last call
  writes,             \* the number of SaveFile calls made so far
  saved,              \* what the last SaveFile call returned, "none" before it
  result              \* the value returned by the wrapper, "none" before it returns

vars == <<parser, pc, enum_code, forward_decl_code, decl_code, code, file,
          writes, saved, result>>

----
\* Bounds of the explored inputs.

\* enum values are drawn from (0 - EnumNegSpan) .. MaxEnumValue
EnumNegSpan == 1
MaxEnumValue == 10
\* an enum has 1 .. MaxEnumVals values
MaxEnumVals == 3
\* a table has 0 .. MaxTableFields fields
MaxTableFields == 4
\* a fixed struct has 1 .. MaxStructFields fields
MaxStructFields == 2

----
\* Helpers on sequences and sets.

Range(s) == {s[i] : i \in 1..Len(s)}

RECURSIVE SetToSortedSeq(_)
SetToSortedSeq(S) ==
  IF S = {} THEN <<>>
  ELSE LET m == CHOOSE x \in S : \A y \in S : x <= y
       IN <<m>> \o SetToSortedSeq(S \ {m})

RECURSIVE Concat(_)
Concat(ss) == IF ss = <<>> THEN <<>> ELSE Head(ss) \o Concat(Tail(ss))

SeqsUpTo(S, lo, hi) == UNION {[1..n -> S] : n \in lo..hi}

\* One unit of emitted text.
Tok(kind, def, name, num, aux) ==
  [kind |-> kind, def |-> def, name |-> name, num |-> num, aux |-> aux]

Kinds(s) == [i \in 1..Len(s) |-> s[i].kind]

Names(s) == [i \in 1..Len(s) |-> s[i].name]

Select(s, kind, def) == SelectSeq(s, LAMBDA t : t.kind = kind /\ t.def = def)

----
\* The type table of idl.h, as far as the generator reads it.

BaseTypes == {"UCHAR", "SHORT", "INT", "LONG", "STRING", "STRUCT"}

IsScalar(base_type) == base_type \in {"UCHAR", "SHORT", "INT", "LONG"}

\* a STRUCT-typed field refers to a fixed struct
IsStruct(base_type) == base_type = "STRUCT"

SizeOf(base_type) ==
  CASE base_type = "UCHAR" -> 1
    [] base_type = "SHORT" -> 2
    [] base_type = "INT" -> 4
    [] base_type = "LONG" -> 8
    [] OTHER -> 4

\* sizeof(largest_scalar_t)
LargestScalarSize == 8

----
\* GenEnum

kMaxSparseness == 5

EnumConstName(enum_def, ev) == enum_def.name \o "_" \o ev.name

\* lines 93-100: one constant per value
EnumConstants(enum_def) ==
  [i \in 1..Len(enum_def.vals) |->
     Tok("enum_const", enum_def.name, EnumConstName(enum_def, enum_def.vals[i]),
         enum_def.vals[i].value, "")]

\* lines 107-108
EnumRange(enum_def) ==
  enum_def.vals[Len(enum_def.vals)].value - enum_def.vals[1].value + 1

EmitsNameTable_Inclusive(enum_def) ==
  EnumRange(enum_def) \div Len(enum_def.vals) <= kMaxSparseness

\* line 112
EmitsNameTable(enum_def) ==
  EnumRange(enum_def) \div Len(enum_def.vals) < kMaxSparseness

RECURSIVE EnumNameEntries_NoFillers(_, _, _)
EnumNameEntries_NoFillers(vals, i, val) ==
  IF i > Len(vals) THEN <<>>
  ELSE <<vals[i].name>> \o EnumNameEntries_NoFillers(vals, i + 1, val + 1)

\* lines 116-121: val is the running counter of the loop; every comparison
\* val++ != (*it)->value that differs appends one empty name.  The loop is
\* only entered with values in ascending order (val never passes a value).
RECURSIVE EnumNameEntries(_, _, _)
EnumNameEntries(vals, i, val) ==
  IF i > Len(vals) THEN <<>>
  ELSE IF val # vals[i].value
       THEN <<"">> \o EnumNameEntries(vals, i, val + 1)
       ELSE <<vals[i].name>> \o EnumNameEntries(vals, i + 1, val + 1)

\* lines 113-127: the names array, its nullptr terminator and the lookup
\* function; the function's token names the constant it subtracts from e
\* ("" when it indexes by e itself).
EnumNameTable(enum_def) ==
  LET entries == EnumNameEntries(enum_def.vals, 1, enum_def.vals[1].value)
  IN [i \in 1..Len(entries) |->
        Tok("name_entry", enum_def.name, entries[i], i - 1, "")]
     \o <<Tok("names_end", enum_def.name, "nullptr", Len(entries), "")>>
     \o <<Tok("name_fn", enum_def.name,
              IF enum_def.vals[1].value # 0
              THEN EnumConstName(enum_def, enum_def.vals[1]) ELSE "",
              0, "")>>

GenEnum_Regenerate(enum_def) ==
  <<Tok("enum_open", enum_def.name, "", 0, "")>>
  \o EnumConstants(enum_def)
  \o (IF EmitsNameTable(enum_def) THEN EnumNameTable(enum_def) ELSE <<>>)

\* lines 88-129: the text GenEnum appends to *code_ptr
GenEnum(enum_def) ==
  IF enum_def.generated THEN <<>>
  ELSE <<Tok("enum_open", enum_def.name, "", 0, "")>>
       \o EnumConstants(enum_def)
       \o (IF EmitsNameTable(enum_def) THEN EnumNameTable(enum_def) ELSE <<>>)

----
\* GenTable

\* the vtable slot printed for a field: NumToString(field.value.offset)
FieldSlot_Renumbered(struct_def, i) ==
  LET live == {j \in 1..(i - 1) : ~struct_def.fields[j].deprecated}
  IN 2 * (Cardinality(live) + 2)

\* lines 154 and 181
FieldSlot(struct_def, i) == struct_def.fields[i].value_offset

LiveFields(struct_def) ==
  SelectSeq([i \in 1..Len(struct_def.fields) |-> i],
            LAMBDA i : ~struct_def.fields[i].deprecated)

\* lines 150-152
GetterOf(base_type) ==
  IF IsScalar(base_type) THEN "GetField"
  ELSE IF IsStruct(base_type) THEN "GetStruct" ELSE "GetPointer"

\* lines 175-180
AdderOf(base_type) ==
  IF IsScalar(base_type) THEN "AddElement"
  ELSE IF IsStruct(base_type) THEN "AddStruct" ELSE "AddOffset"

\* lines 139-161: the accessor struct, one method per field that is not
\* deprecated
TableAccessors(struct_def) ==
  LET live == LiveFields(struct_def)
  IN <<Tok("table_open", struct_def.name, "", 0, "")>>
     \o [k \in 1..Len(live) |->
          Tok("accessor", struct_def.name, struct_def.fields[live[k]].name,
              FieldSlot(struct_def, live[k]),
              GetterOf(struct_def.fields[live[k]].type))]
     \o <<Tok("table_close", struct_def.name, "", 0, "")>>

\* lines 165-193: the builder struct; Finish passes the number of fields,
\* deprecated ones included, to EndTable
TableBuilder(struct_def) ==
  LET live == LiveFields(struct_def)
  IN <<Tok("builder_open", struct_def.name, "", 0, "")>>
     \o [k \in 1..Len(live) |->
          Tok("add_method", struct_def.name, struct_def.fields[live[k]].name,
              FieldSlot(struct_def, live[k]),
              AdderOf(struct_def.fields[live[k]].type))]
     \o <<Tok("builder_ctor", struct_def.name, "", 0, "StartTable"),
          Tok("builder_finish", struct_def.name, "", Len(struct_def.fields),
              "EndTable")>>

RECURSIVE Halvings(_)
Halvings(size) == IF size = 0 THEN <<>> ELSE <<size>> \o Halvings(size \div 2)

CreateSizes_Ascending(struct_def) ==
  IF struct_def.sortbysize THEN <<1, 2, 4, 8>> ELSE <<1>>

CreateSizes_StopAboveOne(struct_def) ==
  IF struct_def.sortbysize THEN <<8, 4, 2>> ELSE <<>>

\* lines 209-211: the values the outer loop gives to size
CreateSizes(struct_def) ==
  Halvings(IF struct_def.sortbysize THEN LargestScalarSize ELSE 1)

CreateFieldOrder_Forward(struct_def) ==
  [k \in 1..Len(struct_def.fields) |-> k]

CreateFieldOrder_ForwardWhenSorted(struct_def) ==
  [k \in 1..Len(struct_def.fields) |->
     IF struct_def.sortbysize THEN k ELSE Len(struct_def.fields) + 1 - k]

\* lines 212-214: the inner loop runs from rbegin() to rend()
CreateFieldOrder(struct_def) ==
  [k \in 1..Len(struct_def.fields) |-> Len(struct_def.fields) + 1 - k]

\* lines 212-221: one pass of the inner loop
CreatePass(struct_def, size) ==
  LET picked ==
        SelectSeq(CreateFieldOrder(struct_def),
                  LAMBDA i : /\ ~struct_def.fields[i].deprecated
                             /\ \/ ~struct_def.sortbysize
                                \/ size = SizeOf(struct_def.fields[i].type))
  IN [k \in 1..Len(picked) |->
        Tok("add_call", struct_def.name, struct_def.fields[picked[k]].name,
            0, "")]

\* lines 209-222
CreateAddCalls(struct_def) ==
  LET sizes == CreateSizes(struct_def)
  IN Concat([k \in 1..Len(sizes) |-> CreatePass(struct_def, sizes[k])])

\* lines 197-223: the convenience constructor create_X
TableCreate(struct_def) ==
  LET live == LiveFields(struct_def)
  IN <<Tok("create_open", struct_def.name, "", 0, "")>>
     \o [k \in 1..Len(live) |->
          Tok("create_param", struct_def.name, struct_def.fields[live[k]].name,
              0, "")]
     \o <<Tok("create_builder", struct_def.name, "builder_", 0, "")>>
     \o CreateAddCalls(struct_def)
     \o <<Tok("create_finish", struct_def.name, "builder_", 0, "Finish")>>

\* lines 132-224: the text GenTable appends to *code_ptr
GenTable(struct_def) ==
  IF struct_def.generated THEN <<>>
  ELSE TableAccessors(struct_def) \o TableBuilder(struct_def)
       \o TableCreate(struct_def)

----
\* GenStruct

\* lines 247-248: the bits i in 0..3 that are set in the padding mask
PaddingBits(padding) ==
  SelectSeq(<<0, 1, 2, 3>>, LAMBDA i : (padding \div (2 ^ i)) % 2 = 1)

\* line 249: "int" + NumToString((1 << i) * 8) + "_t"
PaddingType(i) ==
  CASE i = 0 -> "int8_t" [] i = 1 -> "int16_t" [] i = 2 -> "int32_t"
    [] OTHER -> "int64_t"

\* lines 239-253: the private members from field i on; padding_id is the
\* number of padding members declared so far
RECURSIVE StructMembers(_, _, _)
StructMembers(struct_def, i, padding_id) ==
  IF i > Len(struct_def.fields) THEN <<>>
  ELSE LET field == struct_def.fields[i]
           bits == PaddingBits(field.padding)
       IN <<Tok("member", struct_def.name, field.name, 0, "")>>
          \o [k \in 1..Len(bits) |->
               Tok("padding_decl", struct_def.name, "__padding",
                   padding_id + k - 1, PaddingType(bits[k]))]
          \o StructMembers(struct_def, i + 1, padding_id + Len(bits))

\* lines 256-263
StructCtorParams(struct_def) ==
  [i \in 1..Len(struct_def.fields) |->
     Tok("ctor_param", struct_def.name, struct_def.fields[i].name, 0, "")]

\* lines 265-278: the initializer list from field i on; padding_id is the
\* number of padding initializers written so far
RECURSIVE StructInits(_, _, _)
StructInits(struct_def, i, padding_id) ==
  IF i > Len(struct_def.fields) THEN <<>>
  ELSE LET field == struct_def.fields[i]
       IN <<Tok("init_field", struct_def.name, field.name, 0,
                IF IsScalar(field.type) THEN "EndianScalar" ELSE "")>>
          \o (IF field.padding # 0
              THEN <<Tok("init_padding", struct_def.name, "__padding",
                         padding_id, "0")>>
              ELSE <<>>)
          \o StructInits(struct_def, i + 1,
                         IF field.padding # 0 THEN padding_id + 1
                         ELSE padding_id)

\* lines 283-295
StructGetters(struct_def) ==
  [i \in 1..Len(struct_def.fields) |->
     Tok("getter", struct_def.name, struct_def.fields[i].name, 0,
         IF IsScalar(struct_def.fields[i].type) THEN "EndianScalar" ELSE "")]

\* lines 227-298: the text GenStruct appends to *code_ptr
GenStruct(struct_def) ==
  IF struct_def.generated THEN <<>>
  ELSE <<Tok("struct_open", struct_def.name, "", 0, "")>>
       \o StructMembers(struct_def, 1, 0)
       \o StructCtorParams(struct_def)
       \o StructInits(struct_def, 1, 0)
       \o StructGetters(struct_def)
       \o <<Tok("struct_end", struct_def.name, "", 0, "")>>

----
\* GenerateCPP(parser) and its wrapper GenerateCPP(parser, path, file_name)

\* lines 319-320
ForwardDecl(struct_def) ==
  IF ~struct_def.generated
  THEN <<Tok("forward_decl", struct_def.name, "", 0, "")>>
  ELSE <<>>

\* lines 309-312
GenEnums ==
  /\ pc = "enums"
  /\ enum_code' =
       Concat([i \in 1..Len(parser.enums) |-> GenEnum(parser.enums[i])])
  /\ pc' = "forward"
  /\ UNCHANGED <<parser, forward_decl_code, decl_code, code, file, writes,
                 saved, result>>

\* lines 316-321
GenForwardDecls ==
  /\ pc = "forward"
  /\ forward_decl_code' =
       Concat([i \in 1..Len(parser.structs) |-> ForwardDecl(parser.structs[i])])
  /\ pc' = "structs"
  /\ UNCHANGED <<parser, enum_code, decl_code, code, file, writes, saved,
                 result>>

\* lines 324-328
GenStructs ==
  /\ pc = "structs"
  /\ decl_code' =
       Concat([i \in 1..Len(parser.structs) |->
                 IF parser.structs[i].fixed THEN GenStruct(parser.structs[i])
                 ELSE <<>>])
  /\ pc' = "tables"
  /\ UNCHANGED <<parser, enum_code, forward_decl_code, code, file, writes,
                 saved, result>>

\* lines 329-332
GenTables ==
  /\ pc = "tables"
  /\ decl_code' =
       decl_code \o
       Concat([i \in 1..Len(parser.structs) |->
                 IF ~parser.structs[i].fixed THEN GenTable(parser.structs[i])
                 ELSE <<>>])
  /\ pc' = "assemble"
  /\ UNCHANGED <<parser, enum_code, forward_decl_code, code, file, writes,
                 saved, result>>

\* lines 336-373: the file-level text around the declarations
FileLevelCode ==
  <<Tok("include", "", "flatbuffers/flatbuffers.h", 0, ""),
    Tok("defines", "", "fb_", 0, "")>>
  \o [i \in 1..Len(parser.name_space) |->
        Tok("namespace_open", "", parser.name_space[i], 0, "")]
  \o enum_code \o forward_decl_code \o decl_code
  \o (IF parser.root_struct_def # ""
      THEN <<Tok("get_root", parser.root_struct_def,
                 "get_" \o parser.root_struct_def, 0, "GetRoot")>>
      ELSE <<>>)
  \o [i \in 1..Len(parser.name_space) |->
        Tok("namespace_close", "", parser.name_space[i], 0, "")]

\* lines 334-378
Assemble ==
  /\ pc = "assemble"
  /\ code' = IF Len(enum_code) # 0 \/ Len(forward_decl_code) # 0
                \/ Len(decl_code) # 0
             THEN FileLevelCode ELSE <<>>
  /\ pc' = "save"
  /\ UNCHANGED <<parser, enum_code, forward_decl_code, decl_code, file,
                 writes, saved, result>>

\* lines 386-393: the guard directives around the assembled unit
GuardWrapped(unit) ==
  <<Tok("banner", "", "automatically generated", 0, ""),
    Tok("guard_ifndef", "", "FLATBUFFERS_H", 0, ""),
    Tok("guard_define", "", "FLATBUFFERS_H", 0, "")>>
  \o unit
  \o <<Tok("guard_endif", "", "", 0, ""),
       Tok("trailer", "", ".fb.h", 0, "")>>

SkipsSave_OnEmptyUnit(wrapped) == Len(wrapped) = Len(GuardWrapped(<<>>))

\* line 394: !code.length()
SkipsSave(wrapped) == Len(wrapped) = 0

\* lines 381-396: SaveFile succeeds (ok) or fails
Save ==
  /\ pc = "save"
  /\ \E ok \in BOOLEAN :
       LET wrapped == GuardWrapped(code)
       IN IF SkipsSave(wrapped)
          THEN /\ result' = TRUE
               /\ UNCHANGED <<file, writes, saved>>
          ELSE /\ file' = wrapped
               /\ writes' = writes + 1
               /\ saved' = ok
               /\ result' = ok
  /\ pc' = "done"
  /\ UNCHANGED <<parser, enum_code, forward_decl_code, decl_code, code>>

Next ==
  \/ GenEnums
  \/ GenForwardDecls
  \/ GenStructs
  \/ GenTables
  \/ Assemble
  \/ Save

----
\* The schemas explored.

EnumValNames == <<"Red", "Green", "Blue", "Cyan", "Pink">>

FieldNames == <<"a", "b", "c", "d", "e", "f">>

EnumValues == (0 - EnumNegSpan)..MaxEnumValue

\* values in strictly ascending order, named by position
MakeEnumVals(values) ==
  [i \in 1..Len(values) |-> [name |-> EnumValNames[i], value |-> values[i]]]

EnumDefs ==
  {[name |-> "Color", generated |-> g, vals |-> MakeEnumVals(SetToSortedSeq(S))] :
     g \in BOOLEAN,
     S \in {T \in SUBSET EnumValues : Cardinality(T) \in 1..MaxEnumVals}}

\* the slot a table field gets from its position in the declaration
FieldIndexToOffset(index) == 2 * (index + 2)

MakeFields(shapes) ==
  [i \in 1..Len(shapes) |->
     [name |-> FieldNames[i], type |-> shapes[i].type,
      deprecated |-> shapes[i].deprecated, padding |-> shapes[i].padding,
      value_offset |-> FieldIndexToOffset(i - 1)]]

TableFieldTypes == {"UCHAR", "SHORT", "LONG", "STRING"}

TableDefs ==
  {[name |-> "Monster", fixed |-> FALSE, generated |-> FALSE, sortbysize |-> s,
    fields |-> MakeFields(shapes)] :
     s \in BOOLEAN,
     shapes \in SeqsUpTo([type : TableFieldTypes, deprecated : BOOLEAN,
                          padding : {0}], 0, MaxTableFields)}

StructFieldTypes == {"INT", "STRUCT"}

PaddingMasks == 0..15

StructDefs ==
  {[name |-> "Vec3", fixed |-> TRUE, generated |-> FALSE, sortbysize |-> FALSE,
    fields |-> MakeFields(shapes)] :
     shapes \in SeqsUpTo([type : StructFieldTypes, deprecated : {FALSE},
                          padding : PaddingMasks], 1, MaxStructFields)}

Start(p) ==
  /\ parser = p
  /\ pc = "enums"
  /\ enum_code = <<>>
  /\ forward_decl_code = <<>>
  /\ decl_code = <<>>
  /\ code = <<>>
  /\ file = <<>>
  /\ writes = 0
  /\ saved = "none"
  /\ result = "none"

Schema(enums, structs, root) ==
  [enums |-> enums, structs |-> structs, root_struct_def |-> root,
   name_space |-> <<"MyGame">>]

InitEnum == \E e \in EnumDefs : Start(Schema(<<e>>, <<>>, ""))

InitTable == \E t \in TableDefs : Start(Schema(<<>>, <<t>>, t.name))

\* the tables that keep declaration-driven order, and those sorted by size
InitPlainTable ==
  \E t \in {u \in TableDefs : ~u.sortbysize} : Start(Schema(<<>>, <<t>>, t.name))

InitSortedTable ==
  \E t \in {u \in TableDefs : u.sortbysize} : Start(Schema(<<>>, <<t>>, t.name))

InitStruct == \E s \in StructDefs : Start(Schema(<<>>, <<s>>, ""))

SpecEnum == InitEnum /\ [][Next]_vars

SpecTable == InitTable /\ [][Next]_vars

SpecPlainTable == InitPlainTable /\ [][Next]_vars

SpecSortedTable == InitSortedTable /\ [][Next]_vars

SpecStruct == InitStruct /\ [][Next]_vars

\* schemas of up to two enums, a fixed struct and a table, any of them
\* already generated
Color(g) ==
  [name |-> "Color", generated |-> g, vals |-> MakeEnumVals(<<0, 1, 2>>)]

Kind(g) ==
  [name |-> "Kind", generated |-> g, vals |-> MakeEnumVals(<<1, 40>>)]

Vec3(g) ==
  [name |-> "Vec3", fixed |-> TRUE, generated |-> g, sortbysize |-> FALSE,
   fields |-> MakeFields(<<[type |-> "INT", deprecated |-> FALSE, padding |-> 0],
                           [type |-> "UCHAR", deprecated |-> FALSE, padding |-> 1]>>)]

Monster(g) ==
  [name |-> "Monster", fixed |-> FALSE, generated |-> g, sortbysize |-> FALSE,
   fields |-> MakeFields(<<[type |-> "STRUCT", deprecated |-> FALSE, padding |-> 0],
                           [type |-> "SHORT", deprecated |-> TRUE, padding |-> 0],
                           [type |-> "STRING", deprecated |-> FALSE, padding |-> 0]>>)]

SchemaEnumLists ==
  {<<>>} \cup {<<Color(g)>> : g \in BOOLEAN}
         \cup {<<Color(g), Kind(h)>> : g \in BOOLEAN, h \in BOOLEAN}

SchemaStructLists ==
  {<<>>} \cup {<<Vec3(g)>> : g \in BOOLEAN} \cup {<<Monster(g)>> : g \in BOOLEAN}
         \cup {<<Vec3(g), Monster(h)>> : g \in BOOLEAN, h \in BOOLEAN}

InitSchema ==
  \E enums \in SchemaEnumLists, structs \in SchemaStructLists :
    \E root \in {""} \cup {structs[i].name : i \in 1..Len(structs)} :
      Start(Schema(enums, structs, root))

SpecSchema == InitSchema /\ [][Next]_vars

----
\* Reading the emitted text.

EnumsDone == pc # "enums"

StructsDone == pc \in {"tables", "assemble", "save", "done"}

TablesDone == pc \in {"assemble", "save", "done"}

LiveEnums == {e \in Range(parser.enums) : ~e.generated}

LiveTables == {sd \in Range(parser.structs) : ~sd.fixed /\ ~sd.generated}

LiveStructs == {sd \in Range(parser.structs) : sd.fixed /\ ~sd.generated}

\* the tokens of one kind emitted for one field or value of a definition
Member(text, kind, def, name) ==
  SelectSeq(text, LAMBDA t : t.kind = kind /\ t.def = def /\ t.name = name)

Positions(text, kind, def) ==
  {k \in 1..Len(text) : text[k].kind = kind /\ text[k].def = def}

FieldNamed(sd, name) ==
  CHOOSE i \in 1..Len(sd.fields) : sd.fields[i].name = name

\* the field names of the add_ calls of create_X, in emission order
AddCalls(sd) == Names(Select(decl_code, "add_call", sd.name))

CallSizes(sd) ==
  LET calls == AddCalls(sd)
  IN [k \in 1..Len(calls) |-> SizeOf(sd.fields[FieldNamed(sd, calls[k])].type)]

\* every occurrence of a comes before every occurrence of b, and both occur
Before(calls, a, b) ==
  /\ \E k1, k2 \in 1..Len(calls) : calls[k1] = a /\ calls[k2] = b
  /\ \A k1, k2 \in 1..Len(calls) : calls[k1] = a /\ calls[k2] = b => k1 < k2

Undeprecated(sd) ==
  [sd EXCEPT !.fields = [i \in 1..Len(sd.fields) |->
                           [sd.fields[i] EXCEPT !.deprecated = FALSE]]]

Slots(text, kind, def, name) ==
  {Member(text, kind, def, name)[k].num :
     k \in 1..Len(Member(text, kind, def, name))}

----
\* C1: a deprecated table field gets no accessor and no add_ method; every
\* other field's accessor and add_ method print the field's own stored slot
\* number, which is the slot printed for it when no field of the table is
\* deprecated.
C1_DeprecatedKeepsSlots ==
  TablesDone =>
    \A sd \in LiveTables :
      LET plain == GenTable(Undeprecated(sd))
      IN \A i \in 1..Len(sd.fields) :
      LET f == sd.fields[i]
          acc == Member(decl_code, "accessor", sd.name, f.name)
          add == Member(decl_code, "add_method", sd.name, f.name)
      IN IF f.deprecated
         THEN acc = <<>> /\ add = <<>>
         ELSE /\ Len(acc) = 1 /\ Len(add) = 1
              /\ acc[1].num = f.value_offset
              /\ add[1].num = f.value_offset
              /\ Slots(plain, "accessor", sd.name, f.name) = {acc[1].num}
              /\ Slots(plain, "add_method", sd.name, f.name) = {add[1].num}

\* a table was emitted in which a live field follows a deprecated one
C1_Witness ==
  /\ TablesDone
  /\ \E sd \in LiveTables : \E i, j \in 1..Len(sd.fields) :
       /\ i < j
       /\ sd.fields[i].deprecated
       /\ ~sd.fields[j].deprecated
       /\ Member(decl_code, "accessor", sd.name, sd.fields[j].name) # <<>>
       /\ Member(decl_code, "add_method", sd.name, sd.fields[j].name) # <<>>

----
\* the name the emitted lookup function returns for e: it indexes the names
\* array by e, or by e minus the value of the constant it names
LookupIndex(def, e) ==
  LET fn == Select(enum_code, "name_fn", def)[1]
  IN IF fn.name = "" THEN e
     ELSE e - Member(enum_code, "enum_const", def, fn.name)[1].num

LookupNames(def, e) ==
  {t.name : t \in {u \in Range(enum_code) :
                     /\ u.kind = "name_entry" /\ u.def = def
                     /\ u.num = LookupIndex(def, e)}}

DeclaredName(enum_def, v) ==
  IF \E i \in 1..Len(enum_def.vals) : enum_def.vals[i].value = v
  THEN enum_def.vals[CHOOSE i \in 1..Len(enum_def.vals) :
                       enum_def.vals[i].value = v].name
  ELSE ""

MinValue(enum_def) == enum_def.vals[1].value

MaxValue(enum_def) == enum_def.vals[Len(enum_def.vals)].value

HasNameTable(enum_def) == Select(enum_code, "name_fn", enum_def.name) # <<>>

\* C2: an emitted name table has max - min + 1 entries before its nullptr,
\* entry v - min is the declared name of v or "" when v is not declared,
\* and the lookup function returns that entry for every v in [min, max].
C2_DenseNameTable ==
  EnumsDone =>
    \A e \in LiveEnums :
      HasNameTable(e) =>
        LET entries == Select(enum_code, "name_entry", e.name)
            ends == Select(enum_code, "names_end", e.name)
        IN /\ Len(entries) = MaxValue(e) - MinValue(e) + 1
           /\ Len(ends) = 1 /\ ends[1].num = Len(entries)
           /\ \A v \in MinValue(e)..MaxValue(e) :
                /\ entries[v - MinValue(e) + 1].name = DeclaredName(e, v)
                /\ entries[v - MinValue(e) + 1].num = v - MinValue(e)
                /\ LookupNames(e.name, v) = {DeclaredName(e, v)}

\* a table with a gap, for an enum that does not start at 0
C2_Witness ==
  /\ EnumsDone
  /\ \E e \in LiveEnums :
       /\ HasNameTable(e)
       /\ MinValue(e) # 0
       /\ Len(e.vals) >= 2
       /\ MaxValue(e) - MinValue(e) + 1 > Len(e.vals)
       /\ LookupNames(e.name, MaxValue(e)) = {e.vals[Len(e.vals)].name}

\* C3: the name table and the lookup function are emitted exactly when
\* (max - min + 1) / count is below 5, both or neither; the constants are
\* emitted either way.
C3_SparsenessThreshold ==
  EnumsDone =>
    \A e \in LiveEnums :
      LET below == MaxValue(e) - MinValue(e) + 1 < kMaxSparseness * Len(e.vals)
      IN /\ Len(Select(enum_code, "enum_const", e.name)) = Len(e.vals)
         /\ below => /\ Select(enum_code, "name_entry", e.name) # <<>>
                      /\ Len(Select(enum_code, "name_fn", e.name)) = 1
         /\ ~below => /\ Select(enum_code, "name_entry", e.name) = <<>>
                       /\ Select(enum_code, "names_end", e.name) = <<>>
                       /\ Select(enum_code, "name_fn", e.name) = <<>>

\* an enum whose ratio is exactly 5 was emitted without a table
C3_Witness ==
  /\ EnumsDone
  /\ \E e \in LiveEnums :
       /\ MaxValue(e) - MinValue(e) + 1 = kMaxSparseness * Len(e.vals)
       /\ Select(enum_code, "enum_const", e.name) # <<>>
       /\ ~HasNameTable(e)

----
LiveNames(sd) ==
  [k \in 1..Len(LiveFields(sd)) |-> sd.fields[LiveFields(sd)[k]].name]

\* C4 as claimed: without sortbysize, the add_ call of a field declared
\* earlier is emitted before the add_ call of a field declared later.
C4_DeclarationOrder ==
  TablesDone =>
    \A sd \in LiveTables :
      ~sd.sortbysize =>
        LET calls == AddCalls(sd)
        IN \A i, j \in 1..Len(sd.fields) :
          (i < j /\ ~sd.fields[i].deprecated /\ ~sd.fields[j].deprecated)
            => Before(calls, sd.fields[i].name, sd.fields[j].name)

\* C4 as amended: without sortbysize, the add_ calls are emitted in reverse
\* declaration order: the add_ call of a field declared later is emitted
\* before the add_ call of a field declared earlier.
C4_ReverseDeclarationOrder ==
  TablesDone =>
    \A sd \in LiveTables :
      ~sd.sortbysize =>
        LET calls == AddCalls(sd)
        IN \A i, j \in 1..Len(sd.fields) :
          (i < j /\ ~sd.fields[i].deprecated /\ ~sd.fields[j].deprecated)
            => Before(calls, sd.fields[j].name, sd.fields[i].name)

\* an unsorted table with three live fields around a deprecated one
C4_Witness ==
  /\ TablesDone
  /\ \E sd \in LiveTables :
       /\ ~sd.sortbysize
       /\ Len(LiveFields(sd)) >= 3
       /\ Len(LiveFields(sd)) < Len(sd.fields)
       /\ Len(AddCalls(sd)) = Len(LiveFields(sd))

\* C5: with sortbysize, no add_ call of a smaller field precedes an add_ call
\* of a larger field.
C5_DescendingSize ==
  TablesDone =>
    \A sd \in LiveTables :
      sd.sortbysize =>
        LET sizes == CallSizes(sd)
        IN \A k1, k2 \in 1..Len(sizes) : k1 < k2 => sizes[k1] >= sizes[k2]

\* fields of sizes 1, 4, 2, 8 were emitted as 8, 4, 2, 1
C5_Witness ==
  /\ TablesDone
  /\ \E sd \in LiveTables :
       /\ sd.sortbysize
       /\ [i \in 1..Len(sd.fields) |-> SizeOf(sd.fields[i].type)] = <<1, 4, 2, 8>>
       /\ \A i \in 1..Len(sd.fields) : ~sd.fields[i].deprecated
       /\ CallSizes(sd) = <<8, 4, 2, 1>>

\* C6 as claimed: with sortbysize, of two live fields of equal size the one
\* declared earlier has its add_ call emitted first.
C6_TiesInDeclarationOrder ==
  TablesDone =>
    \A sd \in LiveTables :
      sd.sortbysize =>
        LET calls == AddCalls(sd)
        IN \A i, j \in 1..Len(sd.fields) :
          (/\ i < j /\ ~sd.fields[i].deprecated /\ ~sd.fields[j].deprecated
           /\ SizeOf(sd.fields[i].type) = SizeOf(sd.fields[j].type))
            => Before(calls, sd.fields[i].name, sd.fields[j].name)

\* C6 as amended: with sortbysize, of two live fields of equal size the one
\* declared later has its add_ call emitted first.
C6_TiesInReverseOrder ==
  TablesDone =>
    \A sd \in LiveTables :
      sd.sortbysize =>
        LET calls == AddCalls(sd)
        IN \A i, j \in 1..Len(sd.fields) :
          (/\ i < j /\ ~sd.fields[i].deprecated /\ ~sd.fields[j].deprecated
           /\ SizeOf(sd.fields[i].type) = SizeOf(sd.fields[j].type))
            => Before(calls, sd.fields[j].name, sd.fields[i].name)

\* a sorted table with two live fields of one size and a larger one between
C6_Witness ==
  /\ TablesDone
  /\ \E sd \in LiveTables : \E i, j, k \in 1..Len(sd.fields) :
       /\ sd.sortbysize
       /\ i < k /\ k < j
       /\ ~sd.fields[i].deprecated /\ ~sd.fields[j].deprecated
       /\ ~sd.fields[k].deprecated
       /\ SizeOf(sd.fields[i].type) = SizeOf(sd.fields[j].type)
       /\ SizeOf(sd.fields[k].type) > SizeOf(sd.fields[i].type)
       /\ Before(AddCalls(sd), sd.fields[k].name, sd.fields[j].name)

\* C10: create_X holds exactly one add_ call per live field and none for a
\* deprecated field, all between the builder's declaration and Finish, and
\* the fields added are the parameters of create_X.
C10_OneAddPerLiveField ==
  TablesDone =>
    \A sd \in LiveTables :
      LET opened == Positions(decl_code, "create_builder", sd.name)
          finished == Positions(decl_code, "create_finish", sd.name)
          calls == Positions(decl_code, "add_call", sd.name)
      IN /\ Cardinality(opened) = 1 /\ Cardinality(finished) = 1
         /\ \A p \in calls : \A o \in opened : \A f \in finished :
              o < p /\ p < f
         /\ \A i \in 1..Len(sd.fields) :
              Len(Member(decl_code, "add_call", sd.name, sd.fields[i].name))
                = IF sd.fields[i].deprecated THEN 0 ELSE 1
         /\ Range(AddCalls(sd)) =
              Range(Names(Select(decl_code, "create_param", sd.name)))
         /\ Names(Select(decl_code, "create_param", sd.name)) = LiveNames(sd)

\* sorted and unsorted tables with live fields of size 1 and a deprecated
\* field were emitted
C10_Witness ==
  /\ TablesDone
  /\ \E sd \in LiveTables : \E i, j \in 1..Len(sd.fields) :
       /\ sd.sortbysize
       /\ sd.fields[i].deprecated
       /\ ~sd.fields[j].deprecated
       /\ SizeOf(sd.fields[j].type) = 1
       /\ Len(LiveFields(sd)) >= 3
       /\ Len(AddCalls(sd)) = Len(LiveFields(sd))

----
RECURSIVE SetBits(_, _)
SetBits(sd, i) ==
  IF i > Len(sd.fields) THEN 0
  ELSE Len(PaddingBits(sd.fields[i].padding)) + SetBits(sd, i + 1)

\* C7 as claimed: every padding member declared in a fixed struct, one per
\* set bit of a field's padding mask, is initialized to 0 exactly once by the
\* constructor, and the constructor initializes no other padding member.
C7_AllPaddingZeroed ==
  StructsDone =>
    \A sd \in LiveStructs :
      LET declared == Select(decl_code, "padding_decl", sd.name)
          zeroed == Select(decl_code, "init_padding", sd.name)
      IN /\ Len(declared) = SetBits(sd, 1)
         /\ \A k \in 1..Len(declared) :
              Cardinality({j \in 1..Len(zeroed) :
                             /\ zeroed[j].num = declared[k].num
                             /\ zeroed[j].aux = "0"}) = 1
         /\ \A j \in 1..Len(zeroed) :
              \E k \in 1..Len(declared) : declared[k].num = zeroed[j].num

----
GeneratedNames ==
  {parser.enums[i].name : i \in {j \in 1..Len(parser.enums) :
                                   parser.enums[j].generated}}
  \cup {parser.structs[i].name : i \in {j \in 1..Len(parser.structs) :
                                          parser.structs[j].generated}}

GeneratedFlags ==
  <<[i \in 1..Len(parser.enums) |-> parser.enums[i].generated],
    [i \in 1..Len(parser.structs) |-> parser.structs[i].generated]>>

\* nothing an emitter or the forward-declaration loop writes names a
\* generated definition; only the root entry point may
NoGeneratedEmitted ==
  /\ \A t \in Range(enum_code) \cup Range(forward_decl_code) \cup Range(decl_code) :
       t.def \notin GeneratedNames
  /\ \A t \in Range(code) \cup Range(file) :
       t.def \in GeneratedNames => t.kind = "get_root"

\* C8: a definition whose generated flag is set contributes no enum text, no
\* forward declaration, no struct body and no table text to the output, and
\* no step of GenerateCPP changes a generated flag.
C8_GeneratedNeverReemitted ==
  [](NoGeneratedEmitted) /\ [][GeneratedFlags' = GeneratedFlags]_vars

\* a file was written for a schema with generated and new definitions
C8_Witness ==
  /\ pc = "done"
  /\ \E i \in 1..Len(parser.enums) : parser.enums[i].generated
  /\ \E i \in 1..Len(parser.structs) : parser.structs[i].generated
  /\ \E i \in 1..Len(parser.structs) : ~parser.structs[i].generated
  /\ decl_code # <<>>
  /\ writes = 1

\* C9: the wrapper calls SaveFile exactly once, with the guard-wrapped unit,
\* and returns what SaveFile returned; an empty unit is still written as the
\* bare guard shell.
C9_SingleWrite ==
  /\ pc # "done" => writes = 0 /\ result = "none"
  /\ pc = "done" =>
       /\ writes = 1
       /\ file = GuardWrapped(code)
       /\ saved \in BOOLEAN
       /\ result = saved
       /\ code = <<>> =>
            Kinds(file) = <<"banner", "guard_ifndef", "guard_define",
                            "guard_endif", "trailer">>

\* an empty unit was written successfully
C9_Witness ==
  /\ pc = "done"
  /\ code = <<>>
  /\ writes = 1
  /\ saved = TRUE
  /\ result = TRUE

====
